---- MODULE Spec2Model ----
(***************************************************************************)
(* aidocgen (src/aidoc.py): extract -> generate_docstring ->               *)
(* insert_docstring, driven per file by process_file and per batch by      *)
(* main.                                                                   *)
(*                                                                         *)
(* A source text is modelled by what ast.parse makes of it: whether it     *)
(* parses, and the FunctionDef / ClassDef nodes of its tree in ast.walk    *)
(* order, each with its name and the statements of its body.  A statement  *)
(* is a bare string literal (with its value) or anything else.  A text is  *)
(* a sequence of characters, so that strip and cleandoc are computed.      *)
(***************************************************************************)
EXTENDS Naturals, Sequences, FiniteSets

\* ---------------------------------------------------------------- bounds
\* definitions (functions and classes) in the whole batch
MaxDefs == 2
\* files matched by main's glob
MaxFiles == 2
\* invocations of main by the operator
MaxRuns == 2

\* ----------------------------------------------------------------- texts
Names == {"f", "g", "__init__"}

\* values of a first-statement string literal in the input
ExistingTexts == {<< >>, <<" ">>, <<"a">>}

\* completions the backend may return
Summaries == {<< >>, <<" ">>, <<"s">>, <<"t">>}

RECURSIVE Lstrip(_)
Lstrip(t) == IF t # << >> /\ Head(t) = " " THEN Lstrip(Tail(t)) ELSE t

RECURSIVE Rstrip(_)
Rstrip(t) ==
    IF t # << >> /\ t[Len(t)] = " " THEN Rstrip(SubSeq(t, 1, Len(t) - 1)) ELSE t

Strip(t) == Rstrip(Lstrip(t))

\* inspect.cleandoc of a one-line text: the first line is lstripped, and a
\* line left empty is dropped
Cleandoc(t) == Lstrip(t)

\* Optional[str]
None == << >>
Some(t) == <<t>>

\* Python truthiness of an Optional[str]
Truthy(d) == d # None /\ Len(d[1]) > 0

\* ------------------------------------------------------------ statements
Other == [type |-> "Other", value |-> << >>]
Str(t) == [type |-> "Str", value |-> t]

Bodies == {<<Other>>} \cup {<<Str(t), Other>> : t \in ExistingTexts}

Kinds == {"function", "class"}

Nodes == [kind : Kinds, name : Names, body : Bodies]

\* the trees of exactly n definitions, in ast.walk order
TreesOf(n) == [1..n -> Nodes]

\* ----------------------------------------------------------------- files
SourceText(valid, fmt, defs) == [valid |-> valid, fmt |-> fmt, defs |-> defs]

\* a text that ast.parse rejects
Malformed == SourceText(FALSE, "orig", << >>)

\* the sequences of n files holding at most d definitions in all
RECURSIVE BatchesOf(_, _)
BatchesOf(n, d) ==
    IF n = 0 THEN {<< >>}
    ELSE UNION {
            {Append(b, SourceText(TRUE, "orig", t)) :
                b \in BatchesOf(n - 1, d - k), t \in TreesOf(k)}
            : k \in 0..d}
         \cup {Append(b, Malformed) : b \in BatchesOf(n - 1, d)}

\* the batches of one to n files
Batches(n) == UNION {BatchesOf(m, MaxDefs) : m \in 1..n}

\* --------------------------------------------------------- ast and astor
\* ast.parse: the tree of a text that parses
Parse(source) == source.defs

\* astor.to_source: the tree in astor's own layout
ToSource(tree) == SourceText(TRUE, "astor", tree)

\* ast.get_docstring(node), clean=True
get_docstring(node) ==
    IF Len(node.body) > 0 /\ node.body[1].type = "Str"
        THEN Some(Cleandoc(node.body[1].value))
        ELSE None

\* ------------------------------------------------------------ extraction
extract_function(node) ==
    [name |-> node.name,
     docstring |-> get_docstring(node),
     is_docstring_generated |-> FALSE]

ExtractedClass(node) ==
    [name |-> node.name,
     docstring |-> get_docstring(node),
     is_docstring_generated |-> FALSE]

RECURSIVE RecordsOf(_, _)
RecordsOf(tree, kind) ==
    IF tree = << >> THEN << >>
    ELSE IF Head(tree).kind = kind
        THEN <<IF kind = "function" THEN extract_function(Head(tree))
                                    ELSE ExtractedClass(Head(tree))>>
             \o RecordsOf(Tail(tree), kind)
        ELSE RecordsOf(Tail(tree), kind)

\* extract(source): <<functions, classes>>, each in ast.walk order
extract(source) ==
    <<RecordsOf(Parse(source), "function"), RecordsOf(Parse(source), "class")>>

\* --------------------------------------------------------------- splicer
\* delete_docstring(node): the body it leaves
delete_docstring(node) ==
    IF Truthy(get_docstring(node)) THEN Tail(node.body) ELSE node.body

\* the test of aidoc.py:265 that makes the walk pass over a node
Skips(node, overwrite) ==
    LET docstring == get_docstring(node)
    IN  /\ Truthy(docstring)
        /\ Len(Strip(docstring[1])) > 0
        /\ ~overwrite

\* the test of aidoc.py:261-263
Matches(node, name) ==
    /\ node.kind \in {"function", "class"}
    /\ node.name = name

\* the node the walk of insert_docstring stops at, 0 when it stops at none
SpliceIndex(tree, name, overwrite) ==
    LET hits == {k \in 1..Len(tree) :
                    Matches(tree[k], name) /\ ~Skips(tree[k], overwrite)}
    IN  IF hits = {} THEN 0
        ELSE CHOOSE k \in hits : \A h \in hits : k <= h

insert_docstring(source, function_or_class, overwrite) ==
    LET tree == Parse(source)
        k == SpliceIndex(tree, function_or_class.name, overwrite)
        updated ==
            IF k = 0 THEN tree
            ELSE [tree EXCEPT ![k].body =
                    <<Str(function_or_class.docstring[1])>>
                        \o delete_docstring(tree[k])]
    IN  ToSource(updated)

\* --------------------------------------------------------------- backend
\* generate_docstring: <<text, success>>
GenerateOutcomes == {<<<< >>, FALSE>>} \cup {<<s, TRUE>> : s \in Summaries}

\* ------------------------------------------------------------------ state
VARIABLES
    disk,        \* the files of the batch, in glob order
    overwrite,   \* args.overwrite of the current invocation of main
    runs,        \* invocations of main so far
    fileIdx,     \* the file main's loop is at (process_file was called for 1..fileIdx)
    pc,          \* where the current invocation is
    error,       \* the uncaught exception that ended it, or "none"
    source,      \* process_file's running source
    functions,   \* process_file's function records
    classes,     \* process_file's class records
    i,           \* function loop: index of the next record
    j,           \* class loop: index of the next record
    lastCall,    \* the latest call of generate_docstring / insert_docstring
    prevDisk,    \* the disk as the previous complete invocation left it
    clean        \* so far every invocation ran with overwrite=false and every
                 \* synthesis succeeded with a non-empty summary

vars == <<disk, overwrite, runs, fileIdx, pc, error, source, functions,
          classes, i, j, lastCall, prevDisk, clean>>

NoSource == SourceText(TRUE, "none", << >>)
\* a call: the function, the kind and name of the record it was given, and
\* for generate_docstring what it returned
NoCall == [op |-> "none", kind |-> "none", name |-> "none", result |-> << >>]
Call(op, kind, name, result) ==
    [op |-> op, kind |-> kind, name |-> name, result |-> result]

\* main starts on one of the given batches
Start(batches) ==
    /\ disk \in batches
    /\ overwrite \in BOOLEAN
    /\ runs = 1
    /\ fileIdx = 0
    /\ pc = "main"
    /\ error = "none"
    /\ source = NoSource
    /\ functions = << >>
    /\ classes = << >>
    /\ i = 0
    /\ j = 0
    /\ lastCall = NoCall
    /\ prevDisk = disk
    /\ clean = ~overwrite

\* main is given a directory (aidoc.py:467-470): the batch is what the glob
\* matches
Init == Start(Batches(MaxFiles))

\* main is given the path of one file (aidoc.py:465-466)
InitFile == Start(BatchesOf(1, MaxDefs))

\* locals of process_file are gone once it returns or raises
DropLocals ==
    /\ source' = NoSource
    /\ functions' = << >>
    /\ classes' = << >>
    /\ i' = 0
    /\ j' = 0

\* an uncaught exception leaves process_file and main
Raise(e) ==
    /\ pc' = "crashed"
    /\ error' = e
    /\ DropLocals
    /\ UNCHANGED <<disk, overwrite, runs, prevDisk>>

\* the constructor test with the name misspelt
IsConstructorMisspelt(name) == name = "init"

\* aidoc.py:351
IsConstructor(name) == name = "__init__"

\* aidoc.py:357
Usable(text, success) == success /\ Len(text) > 0

\* main's loop calls process_file for the next file: read_source_file, extract
ProcessFile ==
    /\ pc = "main"
    /\ fileIdx < Len(disk)
    /\ fileIdx' = fileIdx + 1
    /\ lastCall' = NoCall
    /\ UNCHANGED clean
    /\ IF ~disk[fileIdx + 1].valid
        THEN Raise("SyntaxError")
        ELSE /\ source' = disk[fileIdx + 1]
             /\ functions' = extract(disk[fileIdx + 1])[1]
             /\ classes' = extract(disk[fileIdx + 1])[2]
             /\ i' = 1
             /\ j' = 0
             /\ pc' = "functions"
             /\ UNCHANGED <<disk, overwrite, runs, error, prevDisk>>

\* function loop: the record is a constructor
FunctionSkip ==
    /\ pc = "functions"
    /\ i <= Len(functions)
    /\ IsConstructor(functions[i].name)
    /\ i' = i + 1
    /\ UNCHANGED <<disk, overwrite, runs, fileIdx, pc, error, source,
                   functions, classes, j, lastCall, prevDisk, clean>>

\* function loop: generate_docstring for the record, then the test of line 357
FunctionGenerate ==
    /\ pc = "functions"
    /\ i <= Len(functions)
    /\ ~IsConstructor(functions[i].name)
    /\ \E out \in GenerateOutcomes :
        /\ functions' = [functions EXCEPT
                            ![i].docstring = Some(out[1]),
                            ![i].is_docstring_generated = out[2]]
        /\ lastCall' =
            Call("generate_docstring", "function", functions[i].name, out)
        /\ clean' = (clean /\ out[2] /\ Len(out[1]) > 0)
        /\ IF Usable(out[1], out[2])
            THEN pc' = "fn_insert" /\ i' = i
            ELSE pc' = "functions" /\ i' = i + 1
    /\ UNCHANGED <<disk, overwrite, runs, fileIdx, error, source, classes, j,
                   prevDisk>>

\* function loop: source = insert_docstring(source, function, overwrite)
FunctionInsert ==
    /\ pc = "fn_insert"
    /\ source' = insert_docstring(source, functions[i], overwrite)
    /\ i' = i + 1
    /\ pc' = "functions"
    /\ lastCall' = Call("insert_docstring", "function", functions[i].name, << >>)
    /\ UNCHANGED <<disk, overwrite, runs, fileIdx, error, functions, classes,
                   j, prevDisk, clean>>

\* the function loop ends; `function` stays bound to the last record, if any
FunctionsDone ==
    /\ pc = "functions"
    /\ i > Len(functions)
    /\ pc' = "classes"
    /\ j' = 1
    /\ UNCHANGED <<disk, overwrite, runs, fileIdx, error, source, functions,
                   classes, i, lastCall, prevDisk, clean>>

\* class loop: generate_docstring for the record, then the test of line 367,
\* which reads the function loop's variable
ClassGenerate ==
    /\ pc = "classes"
    /\ j <= Len(classes)
    /\ UNCHANGED fileIdx
    /\ \E out \in GenerateOutcomes :
        /\ lastCall' = Call("generate_docstring", "class", classes[j].name, out)
        /\ clean' = (clean /\ out[2] /\ Len(out[1]) > 0)
        /\ LET updated == [classes EXCEPT
                              ![j].docstring = Some(out[1]),
                              ![j].is_docstring_generated = out[2]]
               stay == UNCHANGED <<disk, overwrite, runs, error, source,
                                   functions, i, prevDisk>>
           IN  IF ~out[2]
                THEN classes' = updated /\ pc' = "classes" /\ j' = j + 1 /\ stay
               ELSE IF Len(functions) = 0
                THEN Raise("UnboundLocalError")
               ELSE IF functions[Len(functions)].docstring = None
                THEN Raise("TypeError")
               ELSE IF Len(functions[Len(functions)].docstring[1]) > 0
                THEN classes' = updated /\ pc' = "cls_insert" /\ j' = j /\ stay
               ELSE classes' = updated /\ pc' = "classes" /\ j' = j + 1 /\ stay

\* class loop: source = insert_docstring(source, class_, overwrite)
ClassInsert ==
    /\ pc = "cls_insert"
    /\ source' = insert_docstring(source, classes[j], overwrite)
    /\ j' = j + 1
    /\ pc' = "classes"
    /\ lastCall' = Call("insert_docstring", "class", classes[j].name, << >>)
    /\ UNCHANGED <<disk, overwrite, runs, fileIdx, error, functions, classes,
                   i, prevDisk, clean>>

\* black.format_file_in_place: layout only
Black(text) == [text EXCEPT !.fmt = "black"]

\* both loops are over: write_source_file, black (args.format is always
\* true), and process_file returns to main's loop
WriteSourceFile ==
    /\ pc = "classes"
    /\ j > Len(classes)
    /\ disk' = [disk EXCEPT ![fileIdx] = Black(source)]
    /\ pc' = IF fileIdx = Len(disk) THEN "done" ELSE "main"
    /\ DropLocals
    /\ lastCall' = NoCall
    /\ UNCHANGED <<overwrite, runs, fileIdx, error, prevDisk, clean>>

\* the operator runs the command again on the same path
Rerun ==
    /\ pc \in {"done", "crashed"}
    /\ runs < MaxRuns
    /\ runs' = runs + 1
    /\ overwrite' \in BOOLEAN
    /\ fileIdx' = 0
    /\ pc' = "main"
    /\ error' = "none"
    /\ lastCall' = NoCall
    /\ prevDisk' = disk
    /\ clean' = (clean /\ pc = "done" /\ ~overwrite')
    /\ UNCHANGED <<disk, source, functions, classes, i, j>>

\* one invocation of main
NextOnce ==
    \/ ProcessFile
    \/ FunctionSkip
    \/ FunctionGenerate
    \/ FunctionInsert
    \/ FunctionsDone
    \/ ClassGenerate
    \/ ClassInsert
    \/ WriteSourceFile

Next ==
    \/ NextOnce
    \/ Rerun

\* main on a directory, run up to MaxRuns times
Spec == Init /\ [][Next]_vars

\* one invocation of main on one file
SpecOnce == InitFile /\ [][NextOnce]_vars

\* ================================================================ claims
\* the tree of the file on disk
TreeOf(text) == Parse(text)

\* a splice step: insert_docstring is about to be applied to Record
InsertStep == pc \in {"fn_insert", "cls_insert"}
Record == IF pc = "fn_insert" THEN functions[i] ELSE classes[j]
RecordKind == IF pc = "fn_insert" THEN "function" ELSE "class"

\* the least element of a non-empty set of indices, 0 for the empty set
Least(S) == IF S = {} THEN 0 ELSE CHOOSE k \in S : \A h \in S : k <= h

\* first node of the given name, whatever its kind
FirstNamed(tree, name) == Least({k \in 1..Len(tree) : tree[k].name = name})

\* first node of the given kind and name
FirstOfKind(tree, kind, name) ==
    Least({k \in 1..Len(tree) : tree[k].kind = kind /\ tree[k].name = name})

\* the node carries a docstring that is not blank
Documented(node) ==
    /\ get_docstring(node) # None
    /\ Len(Strip(get_docstring(node)[1])) > 0

\* nodes whose body a step changes
Modified == {k \in 1..Len(Parse(source)) : Parse(source')[k] # Parse(source)[k]}

\* a body without its leading string literal, if it has one
WithoutLiteral(body) ==
    IF Len(body) > 0 /\ body[1].type = "Str" THEN Tail(body) ELSE body

\* C1: two complete runs with overwrite=false in which every synthesis
\* succeeds with a non-empty summary: the second leaves every definition
\* body as the first left it.
C1_Idempotence ==
    (pc = "done" /\ runs >= 2 /\ clean)
        => \A f \in 1..Len(disk) : TreeOf(disk[f]) = TreeOf(prevDisk[f])

\* C2: insert_docstring with overwrite=false, when the first definition of
\* the record's name has a non-empty docstring, changes no definition body.
C2_SkipIsNoOp ==
    [][(/\ InsertStep
        /\ ~overwrite
        /\ FirstNamed(Parse(source), Record.name) # 0
        /\ Documented(Parse(source)[FirstNamed(Parse(source), Record.name)]))
       => Parse(source') = Parse(source)]_vars

\* C3: an insert_docstring call modifies at most one definition, and only
\* the first node whose kind and name both match the record.
C3_SpliceTarget ==
    [][InsertStep
       => /\ Cardinality(Modified) <= 1
          /\ \A k \in Modified :
                k = FirstOfKind(Parse(source), RecordKind, Record.name)]_vars

\* the name is that of one definition of the tree only
DefinedOnce(tree, name) ==
    Cardinality({k \in 1..Len(tree) : tree[k].name = name}) = 1

\* the record's summary leads the body of the first definition of its kind
\* and name, or that definition was documented in the file as read and
\* overwrite is false
Covered(kind, record) ==
    LET k == FirstOfKind(Parse(source), kind, record.name)
    IN  \/ Parse(source)[k].body[1] = Str(record.docstring[1])
        \/ ~overwrite /\ Documented(Parse(disk[fileIdx])[k])

\* C4: when both loops of process_file are over, every non-constructor
\* function record and every class record whose synthesis succeeded with a
\* non-empty summary has that summary as the first statement of its target
\* definition.  Stated in the reading most favourable to the code: for names
\* defined once in the file, and allowing the splicer's skip of a definition
\* that was already documented.
C4_Coverage ==
    (pc = "classes" /\ j > Len(classes))
        => /\ \A k \in 1..Len(functions) :
                (/\ functions[k].name # "__init__"
                 /\ DefinedOnce(Parse(source), functions[k].name)
                 /\ functions[k].is_docstring_generated
                 /\ Len(functions[k].docstring[1]) > 0)
                => Covered("function", functions[k])
           /\ \A k \in 1..Len(classes) :
                (/\ DefinedOnce(Parse(source), classes[k].name)
                 /\ classes[k].is_docstring_generated
                 /\ Len(classes[k].docstring[1]) > 0)
                => Covered("class", classes[k])

\* a synthesis step of either loop
GenerateStep ==
    \/ pc = "functions" /\ i <= Len(functions)
            /\ functions[i].name # "__init__"
    \/ pc = "classes" /\ j <= Len(classes)

\* some record of this file already failed to synthesize
SomeFailed ==
    \/ \E k \in 1..Len(functions) :
        /\ (pc = "functions" => k < i)
        /\ functions[k].name # "__init__"
        /\ ~functions[k].is_docstring_generated
    \/ pc = "classes" /\ \E k \in 1..Len(classes) :
        k < j /\ ~classes[k].is_docstring_generated

\* C5: once a synthesis has failed in a file, the run goes on: each further
\* synthesis step ends without an exception, and a record whose own
\* synthesis succeeds with a non-empty summary is passed to insert_docstring.
C5_FailureIsolation ==
    [][(GenerateStep /\ (SomeFailed \/ ~lastCall'.result[2]))
       => /\ pc' # "crashed"
          /\ Usable(lastCall'.result[1], lastCall'.result[2])
                => pc' \in {"fn_insert", "cls_insert"}]_vars

\* C6: a file that does not parse ends its own processing only: when the
\* invocation is over, process_file has been called for every file.
C6_ParseErrorPerFile ==
    (pc = "crashed" /\ error = "SyntaxError")
        => \A f \in 1..Len(disk) : f <= fileIdx

\* C7: when insert_docstring does not skip, the body of the first definition
\* of the record's name becomes the summary followed by the former body
\* without its leading string literal.
C7_ReplaceOnSplice ==
    [][(/\ InsertStep
        /\ FirstNamed(Parse(source), Record.name) # 0
        /\ \/ overwrite
           \/ ~Documented(Parse(source)[FirstNamed(Parse(source), Record.name)]))
       => LET k == FirstNamed(Parse(source), Record.name)
          IN  Parse(source')[k].body
                = <<Str(Record.docstring[1])>>
                    \o WithoutLiteral(Parse(source)[k].body)]_vars

\* C8: no function record named __init__ is passed to generate_docstring
\* or to insert_docstring.
C8_ConstructorExclusion ==
    /\ ~(lastCall.kind = "function" /\ lastCall.name = "__init__")
    /\ pc = "fn_insert" => functions[i].name # "__init__"

\* a constructor was passed over and a later function record is spliced
C8_Witness ==
    /\ pc = "functions"
    /\ lastCall.op = "insert_docstring"
    /\ \E k \in 1..Len(functions) : k < i - 1 /\ functions[k].name = "__init__"

\* C9: a class record is passed to insert_docstring exactly when its own
\* synthesis succeeded with a non-empty summary.
C9_ClassSpliceDecision ==
    [][(pc = "classes" /\ j <= Len(classes))
       => (pc' = "cls_insert"
            <=> Usable(lastCall'.result[1], lastCall'.result[2]))]_vars

\* C10: process_file never ends with an uncaught error on a source that
\* parses.
C10_RunCompletes == error \in {"none", "SyntaxError"}
====
